---------------------------- MODULE Spec2Model ----------------------------
(***************************************************************************)
(* Chess.AI (Bucky789/chess-ai): the rules engine of src/src/utils/ai.js   *)
(* (move generation, attack oracle, legality filter, move executor, status *)
(* evaluator) and the game session of src/src/App.jsx (history, castling   *)
(* rights, click handling, promotion, history navigation, engine turn).    *)
(*                                                                         *)
(* Boards are 8x8 grids indexed board[row][col], rows and columns 0..7,    *)
(* row 0 black's home rank, as in the source.  A piece is the one-letter   *)
(* string of the source (upper case white, lower case black); the empty    *)
(* square (JavaScript null) is the string null.  A nullable object is a    *)
(* sequence: <<>> for null, <<x>> for the object x.                        *)
(***************************************************************************)
EXTENDS Integers, Sequences, FiniteSets, TLC

null == "-"

None == <<>>
Some(x) == <<x>>

Colors == {"white", "black"}
Coord == 0..7

(***************************************************************************)
(* String.prototype.toLowerCase / toUpperCase on the piece alphabet.       *)
(***************************************************************************)
toLowerCase(p) ==
  CASE p = "K" -> "k" [] p = "Q" -> "q" [] p = "R" -> "r"
    [] p = "B" -> "b" [] p = "N" -> "n" [] p = "P" -> "p"
    [] OTHER -> p

toUpperCase(p) ==
  CASE p = "k" -> "K" [] p = "q" -> "Q" [] p = "r" -> "R"
    [] p = "b" -> "B" [] p = "n" -> "N" [] p = "p" -> "P"
    [] OTHER -> p

Row(t) == [c \in Coord |-> t[c + 1]]
Grid(t) == [r \in Coord |-> Row(t[r + 1])]

EmptyRow == <<null, null, null, null, null, null, null, null>>

createInitialBoard ==
  Grid(<< <<"r", "n", "b", "q", "k", "b", "n", "r">>,
          <<"p", "p", "p", "p", "p", "p", "p", "p">>,
          EmptyRow, EmptyRow, EmptyRow, EmptyRow,
          <<"P", "P", "P", "P", "P", "P", "P", "P">>,
          <<"R", "N", "B", "Q", "K", "B", "N", "R">> >>)

DEFAULT_CASTLING_RIGHTS ==
  [wKMoved |-> FALSE, wLRookMoved |-> FALSE, wRRookMoved |-> FALSE,
   bKMoved |-> FALSE, bLRookMoved |-> FALSE, bRRookMoved |-> FALSE]

\* piece && piece === piece.toUpperCase()
isWhitePiece(piece) == piece # null /\ piece = toUpperCase(piece)

isBlackPiece(piece) == piece # null /\ piece = toLowerCase(piece)

\* null for the empty square, else "white" / "black"
getPieceColor(piece) ==
  IF piece = null THEN null
  ELSE IF isWhitePiece(piece) THEN "white" ELSE "black"

getPieceType(piece) == IF piece = null THEN null ELSE toLowerCase(piece)

isValidSquare(row, col) == row >= 0 /\ row < 8 /\ col >= 0 /\ col < 8

Sq(r, c) == [row |-> r, col |-> c]

opponent(color) == IF color = "white" THEN "black" ELSE "white"

(***************************************************************************)
(* Geometry generator.  The source returns arrays; every consumer only     *)
(* tests membership (moves.some, legalMoves.find) or emptiness, so a move  *)
(* list is modelled as the set of its elements.                            *)
(***************************************************************************)
\* Without the two-square advance from the start row.
getPawnMoves_singleStep(board, row, col, color) ==
  LET newRow == row + (IF color = "white" THEN -1 ELSE 1)
  IN {Sq(newRow, c) : c \in
        {k \in {col - 1, col, col + 1} :
           /\ isValidSquare(newRow, k)
           /\ IF k = col THEN board[newRow][k] = null
              ELSE /\ board[newRow][k] # null
                   /\ getPieceColor(board[newRow][k]) # color}}

getPawnMoves(board, row, col, color) ==
  LET direction == IF color = "white" THEN -1 ELSE 1
      startRow == IF color = "white" THEN 6 ELSE 1
      newRow == row + direction
      one == IF isValidSquare(newRow, col) /\ board[newRow][col] = null
             THEN {Sq(newRow, col)} ELSE {}
      two == IF one # {} /\ row = startRow
                /\ board[row + 2 * direction][col] = null
             THEN {Sq(row + 2 * direction, col)} ELSE {}
      caps == {Sq(newRow, col + dc) : dc \in
                 {d \in {-1, 1} :
                    /\ isValidSquare(newRow, col + d)
                    /\ board[newRow][col + d] # null
                    /\ getPieceColor(board[newRow][col + d]) # color}}
  IN one \cup two \cup caps

\* The while loop of getRookMoves / getBishopMoves along one direction.
RECURSIVE slide(_, _, _, _, _, _)
slide(board, newRow, newCol, dr, dc, color) ==
  IF ~isValidSquare(newRow, newCol) THEN {}
  ELSE IF board[newRow][newCol] = null
       THEN {Sq(newRow, newCol)}
              \cup slide(board, newRow + dr, newCol + dc, dr, dc, color)
       ELSE IF getPieceColor(board[newRow][newCol]) # color
            THEN {Sq(newRow, newCol)} ELSE {}

RookDirections == {<<0, 1>>, <<0, -1>>, <<1, 0>>, <<-1, 0>>}
BishopDirections == {<<1, 1>>, <<1, -1>>, <<-1, 1>>, <<-1, -1>>}

getRookMoves(board, row, col, color) ==
  UNION {slide(board, row + d[1], col + d[2], d[1], d[2], color) :
           d \in RookDirections}

getBishopMoves(board, row, col, color) ==
  UNION {slide(board, row + d[1], col + d[2], d[1], d[2], color) :
           d \in BishopDirections}

getQueenMoves(board, row, col, color) ==
  getRookMoves(board, row, col, color) \cup getBishopMoves(board, row, col, color)

KnightOffsets ==
  {<<-2, -1>>, <<-2, 1>>, <<-1, -2>>, <<-1, 2>>,
   <<1, -2>>, <<1, 2>>, <<2, -1>>, <<2, 1>>}

KingOffsets ==
  {<<-1, -1>>, <<-1, 0>>, <<-1, 1>>, <<0, -1>>,
   <<0, 1>>, <<1, -1>>, <<1, 0>>, <<1, 1>>}

\* Offsets whose target is on the board and not held by a piece of color.
stepMoves(board, row, col, color, offsets) ==
  {Sq(row + d[1], col + d[2]) : d \in
     {o \in offsets :
        /\ isValidSquare(row + o[1], col + o[2])
        /\ getPieceColor(board[row + o[1]][col + o[2]]) # color}}

getKnightMoves(board, row, col, color) ==
  stepMoves(board, row, col, color, KnightOffsets)

findKing(board, color) ==
  LET kingPiece == IF color = "white" THEN "K" ELSE "k"
      found == {s \in Coord \X Coord : board[s[1]][s[2]] = kingPiece}
  IN IF found = {} THEN None
     ELSE LET first == CHOOSE s \in found :
                         \A t \in found : s[1] < t[1] \/ (s[1] = t[1] /\ s[2] <= t[2])
          IN Some(Sq(first[1], first[2]))

(***************************************************************************)
(* getKingMoves, getLegalMovesWithoutCheckValidation, isSquareUnderAttack  *)
(* and isKingInCheck call one another in the source; the recursion ends    *)
(* because the attack oracle asks for king moves with forAttack = true.    *)
(***************************************************************************)
RECURSIVE getKingMoves(_, _, _, _, _, _)
RECURSIVE isSquareUnderAttack(_, _, _, _)

\* The home row of color: 7 for white, 0 for black.
homeRow(color) == IF color = "white" THEN 7 ELSE 0

kingMovedFlag(color, rights) ==
  IF color = "white" THEN rights.wKMoved ELSE rights.bKMoved
rightRookMovedFlag(color, rights) ==
  IF color = "white" THEN rights.wRRookMoved ELSE rights.bRRookMoved
leftRookMovedFlag(color, rights) ==
  IF color = "white" THEN rights.wLRookMoved ELSE rights.bLRookMoved

getLegalMovesWithoutCheckValidation(board, row, col, color) ==
  LET piece == board[row][col]
      pieceType == getPieceType(piece)
  IN IF piece = null THEN {}
     ELSE CASE pieceType = "p" -> getPawnMoves(board, row, col, color)
            [] pieceType = "r" -> getRookMoves(board, row, col, color)
            [] pieceType = "n" -> getKnightMoves(board, row, col, color)
            [] pieceType = "b" -> getBishopMoves(board, row, col, color)
            [] pieceType = "q" -> getQueenMoves(board, row, col, color)
            [] pieceType = "k" ->
                 getKingMoves(board, row, col, color, DEFAULT_CASTLING_RIGHTS, TRUE)
            [] OTHER -> {}

isSquareUnderAttack(board, row, col, attackingColor) ==
  \E r \in Coord, c \in Coord :
     /\ board[r][c] # null
     /\ getPieceColor(board[r][c]) = attackingColor
     /\ Sq(row, col) \in
          getLegalMovesWithoutCheckValidation(board, r, c, attackingColor)

isKingInCheck(board, color) ==
  LET kingPos == findKing(board, color)
  IN IF kingPos = None THEN FALSE
     ELSE isSquareUnderAttack(board, kingPos[1].row, kingPos[1].col,
                              opponent(color))

\* The rook's has-moved flag left out.
kingSideCastle_ignoresRookFlag(board, color, castlingRights) ==
  /\ board[homeRow(color)][5] = null
  /\ board[homeRow(color)][6] = null
  /\ ~isSquareUnderAttack(board, homeRow(color), 5, opponent(color))
  /\ ~isSquareUnderAttack(board, homeRow(color), 6, opponent(color))

\* Lines 394-401 / 420-427: the king-side castling test of color.
kingSideCastle(board, color, castlingRights) ==
  LET h == homeRow(color)
  IN /\ ~rightRookMovedFlag(color, castlingRights)
     /\ board[h][5] = null
     /\ board[h][6] = null
     /\ ~isSquareUnderAttack(board, h, 5, opponent(color))
     /\ ~isSquareUnderAttack(board, h, 6, opponent(color))

\* Lines 405-414 / 431-440: the queen-side castling test of color.
queenSideCastle(board, color, castlingRights) ==
  LET h == homeRow(color)
  IN /\ ~leftRookMovedFlag(color, castlingRights)
     /\ board[h][1] = null
     /\ board[h][2] = null
     /\ board[h][3] = null
     /\ ~isSquareUnderAttack(board, h, 2, opponent(color))
     /\ ~isSquareUnderAttack(board, h, 3, opponent(color))

getKingMoves(board, row, col, color, castlingRights, forAttack) ==
  LET moves == stepMoves(board, row, col, color, KingOffsets)
  IN IF forAttack THEN moves
     ELSE IF isKingInCheck(board, color) THEN moves
     ELSE IF kingMovedFlag(color, castlingRights) THEN moves
     ELSE moves
            \cup (IF kingSideCastle(board, color, castlingRights)
                  THEN {Sq(homeRow(color), 6)} ELSE {})
            \cup (IF queenSideCastle(board, color, castlingRights)
                  THEN {Sq(homeRow(color), 2)} ELSE {})

(***************************************************************************)
(* Move executor.  Boards are JavaScript arrays, that is, objects: the     *)
(* heap is the sequence of the board objects allocated so far and a board  *)
(* reference is an index into it.  board.map((row) => [...row]) allocates  *)
(* a new object holding a copy; every later write of simulateMove and      *)
(* makeMove goes through the reference it returned.                        *)
(***************************************************************************)
\* No copy: the same object handed back.
copyBoard_alias(heap, board) == [heap |-> heap, board |-> board]

copyBoard(heap, board) ==
  [heap |-> Append(heap, heap[board]), board |-> Len(heap) + 1]

\* newBoard[row][col] = value
store(heap, board, row, col, value) ==
  [heap EXCEPT ![board] = [@ EXCEPT ![row] = [@ EXCEPT ![col] = value]]]

\* Lines 456-465 and 486-497: the rook's relocation on a two-file king move.
castleRook(heap, newBoard, piece, fromCol, toRow, toCol) ==
  IF piece # null /\ toLowerCase(piece) = "k"
     /\ (toCol - fromCol = 2 \/ fromCol - toCol = 2)
  THEN IF toCol = 6
       THEN store(store(heap, newBoard, toRow, 5, heap[newBoard][toRow][7]),
                  newBoard, toRow, 7, null)
       ELSE IF toCol = 2
       THEN store(store(heap, newBoard, toRow, 3, heap[newBoard][toRow][0]),
                  newBoard, toRow, 0, null)
       ELSE heap
  ELSE heap

simulateMove(heap, board, fromRow, fromCol, toRow, toCol) ==
  LET copy == copyBoard(heap, board)
      newBoard == copy.board
      piece == copy.heap[newBoard][fromRow][fromCol]
      h1 == castleRook(copy.heap, newBoard, piece, fromCol, toRow, toCol)
      h2 == store(h1, newBoard, toRow, toCol, piece)
      h3 == store(h2, newBoard, fromRow, fromCol, null)
  IN [heap |-> h3, board |-> newBoard]

\* The pawn left as it is.
promoted_keepsPawn(piece, toRow, promotionPiece) == piece

\* The pawn crowned king of its colour.
promoted_crownsKing(piece, toRow, promotionPiece) ==
  IF toLowerCase(piece) = "p" /\ (toRow = 0 \/ toRow = 7)
  THEN IF isWhitePiece(piece) THEN "K" ELSE "k"
  ELSE piece

\* promotionPiece || (piece === "P" ? "Q" : "q") for a pawn reaching row 0 or 7
promoted(piece, toRow, promotionPiece) ==
  IF piece # null /\ toLowerCase(piece) = "p" /\ (toRow = 0 \/ toRow = 7)
  THEN IF promotionPiece # null THEN promotionPiece
       ELSE IF piece = "P" THEN "Q" ELSE "q"
  ELSE piece

makeMove(heap, board, fromRow, fromCol, toRow, toCol, promotionPiece) ==
  LET copy == copyBoard(heap, board)
      newBoard == copy.board
      piece == copy.heap[newBoard][fromRow][fromCol]
      capturedPiece == copy.heap[newBoard][toRow][toCol]
      h1 == castleRook(copy.heap, newBoard, piece, fromCol, toRow, toCol)
      h2 == store(h1, newBoard, toRow, toCol,
                  promoted(piece, toRow, promotionPiece))
      h3 == store(h2, newBoard, fromRow, fromCol, null)
  IN [heap |-> h3, board |-> newBoard, capturedPiece |-> capturedPiece]

\* The board simulateMove returns, for a caller that holds the board's value.
simulated(b, fromRow, fromCol, toRow, toCol) ==
  LET res == simulateMove(<<b>>, 1, fromRow, fromCol, toRow, toCol)
  IN res.heap[res.board]

\* The board makeMove returns, for a caller that holds the board's value.
moved(b, fromRow, fromCol, toRow, toCol, promotionPiece) ==
  LET res == makeMove(<<b>>, 1, fromRow, fromCol, toRow, toCol, promotionPiece)
  IN res.heap[res.board]

(***************************************************************************)
(* Legality filter and status evaluator.                                   *)
(***************************************************************************)
pseudoLegalMoves(board, row, col, pieceColor, castlingRights) ==
  LET pieceType == getPieceType(board[row][col])
  IN CASE pieceType = "p" -> getPawnMoves(board, row, col, pieceColor)
       [] pieceType = "r" -> getRookMoves(board, row, col, pieceColor)
       [] pieceType = "n" -> getKnightMoves(board, row, col, pieceColor)
       [] pieceType = "b" -> getBishopMoves(board, row, col, pieceColor)
       [] pieceType = "q" -> getQueenMoves(board, row, col, pieceColor)
       [] pieceType = "k" ->
            getKingMoves(board, row, col, pieceColor, castlingRights, FALSE)
       [] OTHER -> {}

\* The filter left out: every geometrically possible move is kept.
checkFilter_unfiltered(board, row, col, pieceColor, moves) == moves

\* Lines 219-222: keep the moves after which the mover's king is not attacked.
checkFilter(board, row, col, pieceColor, moves) ==
  {move \in moves :
     ~isKingInCheck(simulated(board, row, col, move.row, move.col), pieceColor)}

getLegalMoves(board, row, col, currentPlayer, castlingRights) ==
  LET piece == board[row][col]
  IN IF piece = null THEN {}
     ELSE IF getPieceColor(piece) # currentPlayer THEN {}
     ELSE checkFilter(board, row, col, getPieceColor(piece),
            pseudoLegalMoves(board, row, col, getPieceColor(piece), castlingRights))

\* Lines 584-592 and 602-610: some piece of color has a legal move.
anyLegalMove(board, color, castlingRights) ==
  \E row \in Coord, col \in Coord :
     /\ board[row][col] # null
     /\ getPieceColor(board[row][col]) = color
     /\ getLegalMoves(board, row, col, color, castlingRights) # {}

\* Check alone taken for mate.
isCheckmate_checkOnly(board, color) == isKingInCheck(board, color)

isCheckmate(board, color) ==
  IF ~isKingInCheck(board, color) THEN FALSE
  ELSE ~anyLegalMove(board, color, DEFAULT_CASTLING_RIGHTS)

\* The in-check test left out.
isStalemate_noCheckTest(board, color) ==
  ~anyLegalMove(board, color, DEFAULT_CASTLING_RIGHTS)

isStalemate(board, color) ==
  IF isKingInCheck(board, color) THEN FALSE
  ELSE ~anyLegalMove(board, color, DEFAULT_CASTLING_RIGHTS)

(***************************************************************************)
(* The session's bookkeeping of castling rights (App.jsx, executeMove) and *)
(* the piece a promotion button hands to executeMove.                      *)
(***************************************************************************)
newRights(castlingRights, piece, fromR, fromC) ==
  [wKMoved |-> castlingRights.wKMoved \/ piece = "K",
   wLRookMoved |-> castlingRights.wLRookMoved
                     \/ (piece = "R" /\ fromR = 7 /\ fromC = 0),
   wRRookMoved |-> castlingRights.wRRookMoved
                     \/ (piece = "R" /\ fromR = 7 /\ fromC = 7),
   bKMoved |-> castlingRights.bKMoved \/ piece = "k",
   bLRookMoved |-> castlingRights.bLRookMoved
                     \/ (piece = "r" /\ fromR = 0 /\ fromC = 0),
   bRRookMoved |-> castlingRights.bRRookMoved
                     \/ (piece = "r" /\ fromR = 0 /\ fromC = 7)]

PromotionButtons == {"Q", "R", "B", "N"}

finalPiece(piece, p) == IF piece = "P" THEN p ELSE toLowerCase(p)

\* piece?.toLowerCase() === "p" && (toR === 0 || toR === 7)
reachesLastRank(piece, toR) ==
  piece # null /\ toLowerCase(piece) = "p" /\ (toR = 0 \/ toR = 7)

(***************************************************************************)
(* The players.  A game is played along one of the lines below: at ply n   *)
(* the mover (a person clicking, or the engine answering) makes one of the *)
(* moves <<fromRow, fromCol, toRow, toCol>> the line names for that ply,   *)
(* and the game ends with the line.  A move the program does not offer as  *)
(* legal is never made.  In the lines of EngineLines black may be played   *)
(* by the engine.                                                          *)
(***************************************************************************)
LoydLine ==
  <<{<<6, 4, 5, 4>>}, {<<1, 0, 3, 0>>}, {<<7, 3, 3, 7>>}, {<<0, 0, 2, 0>>},
    {<<3, 7, 3, 0>>}, {<<1, 7, 3, 7>>}, {<<6, 7, 4, 7>>}, {<<2, 0, 2, 7>>},
    {<<3, 0, 1, 2>>}, {<<1, 5, 2, 5>>}, {<<1, 2, 1, 3>>}, {<<0, 4, 1, 5>>},
    {<<1, 3, 1, 1>>}, {<<0, 3, 5, 3>>}, {<<1, 1, 0, 1>>}, {<<5, 3, 1, 7>>},
    {<<0, 1, 0, 2>>}, {<<1, 5, 2, 6>>}, {<<0, 2, 2, 4>>}>>

MateLine ==
  <<{<<6, 2, 5, 2>>}, {<<1, 4, 2, 4>>}, {<<7, 3, 4, 0>>}, {<<0, 3, 2, 5>>},
    {<<6, 6, 5, 6>>}, {<<0, 1, 2, 2>>}, {<<7, 5, 6, 6>>}, {<<2, 2, 4, 3>>},
    {<<7, 6, 5, 7>>}, {<<2, 5, 5, 5>>}, {<<6, 0, 5, 0>>}, {<<5, 5, 6, 4>>}>>

CastleLine ==
  <<{<<6, 4, 4, 4>>}, {<<1, 4, 3, 4>>}, {<<7, 6, 5, 5>>}, {<<0, 6, 2, 5>>},
    {<<7, 5, 4, 2>>}, {<<0, 5, 3, 2>>}, {<<6, 3, 5, 3>>}, {<<1, 3, 2, 3>>},
    {<<7, 1, 5, 2>>}, {<<0, 1, 2, 2>>}, {<<7, 2, 3, 6>>}, {<<0, 2, 4, 6>>},
    {<<7, 3, 6, 3>>}, {<<0, 3, 1, 3>>},
    {<<7, 4, 7, 6>>, <<7, 4, 7, 2>>, <<7, 4, 7, 5>>},
    {<<0, 4, 0, 6>>, <<0, 4, 0, 2>>}>>

PromoLine ==
  <<{<<6, 0, 4, 0>>}, {<<1, 7, 3, 7>>}, {<<6, 6, 4, 6>>}, {<<3, 7, 4, 6>>},
    {<<4, 0, 3, 0>>}, {<<4, 6, 5, 6>>}, {<<3, 0, 2, 0>>}, {<<5, 6, 6, 7>>},
    {<<2, 0, 1, 1>>}, {<<6, 7, 7, 6>>}, {<<1, 1, 0, 0>>, <<1, 1, 0, 2>>}>>

RaceLine ==
  <<{<<6, 4, 4, 4>>}, {<<1, 4, 3, 4>>, <<1, 3, 3, 3>>}, {<<7, 4, 6, 4>>},
    {<<1, 0, 2, 0>>, <<0, 4, 1, 4>>}>>

HangLine ==
  <<{<<6, 6, 4, 6>>}, {<<1, 1, 2, 1>>}, {<<7, 5, 5, 7>>}, {<<0, 2, 1, 1>>},
    {<<6, 0, 5, 0>>}, {<<1, 1, 7, 7>>}, {<<7, 6, 5, 5>>},
    {<<1, 0, 2, 0>>, <<7, 7, 6, 6>>}, {<<7, 4, 7, 6>>}>>

QueenLine ==
  <<{<<6, 2, 4, 2>>}, {<<1, 3, 3, 3>>}, {<<4, 2, 3, 3>>}, {<<0, 3, 3, 3>>},
    {<<6, 1, 5, 1>>}, {<<3, 3, 5, 1>>}, {<<6, 0, 5, 1>>}, {<<0, 2, 5, 7>>},
    {<<6, 6, 5, 7>>}, {<<1, 7, 3, 7>>}, {<<7, 0, 1, 0>>}, {<<0, 0, 1, 0>>},
    {<<7, 2, 5, 0>>}, {<<1, 0, 5, 0>>}, {<<7, 1, 5, 0>>}, {<<1, 1, 3, 1>>},
    {<<5, 0, 3, 1>>}, {<<0, 4, 1, 3>>}, {<<3, 1, 1, 2>>}, {<<1, 3, 1, 2>>},
    {<<6, 4, 4, 4>>}, {<<1, 2, 2, 2>>}, {<<7, 3, 3, 7>>}, {<<1, 6, 3, 6>>},
    {<<3, 7, 3, 6>>}, {<<0, 7, 5, 7>>}, {<<7, 5, 5, 7>>}, {<<2, 2, 1, 2>>},
    {<<3, 6, 1, 4>>}, {<<1, 2, 2, 1>>}, {<<1, 4, 0, 5>>}, {<<0, 1, 1, 3>>},
    {<<5, 7, 1, 3>>}, {<<2, 1, 3, 0>>}, {<<0, 5, 0, 6>>}, {<<1, 5, 3, 5>>},
    {<<1, 3, 3, 5>>}, {<<3, 0, 3, 1>>}, {<<5, 1, 4, 1>>}, {<<3, 1, 4, 1>>},
    {<<0, 6, 5, 1>>}, {<<4, 1, 3, 2>>}, {<<6, 3, 4, 3>>}, {<<3, 2, 4, 3>>},
    {<<3, 5, 5, 7>>}, {<<4, 3, 4, 4>>}, {<<6, 5, 4, 5>>}, {<<4, 4, 4, 5>>},
    {<<5, 7, 3, 5>>}, {<<4, 5, 3, 5>>}, {<<5, 1, 3, 1>>}, {<<3, 5, 4, 5>>},
    {<<7, 6, 5, 5>>}, {<<4, 5, 5, 5>>}, {<<3, 1, 4, 0>>}, {<<5, 5, 6, 6>>},
    {<<4, 0, 1, 3>>}, {<<6, 6, 7, 7>>}, {<<1, 3, 5, 3>>}, {<<7, 7, 6, 7>>},
    {<<5, 3, 5, 4>>}, {<<6, 7, 6, 6>>}, {<<5, 4, 2, 1>>}, {<<6, 6, 5, 5>>},
    {<<2, 1, 1, 2>>, <<7, 4, 7, 6>>}, {<<5, 5, 4, 4>>}, {<<1, 2, 2, 1>>},
    {<<4, 4, 3, 3>>}, {<<2, 1, 4, 1>>}, {<<3, 3, 2, 2>>}, {<<4, 1, 4, 2>>},
    {<<2, 2, 1, 1>>}, {<<4, 2, 1, 2>>}, {<<1, 1, 0, 0>>}, {<<1, 2, 2, 1>>}>>

\* Every first move of White: each pawn one or two squares, each knight to
\* either side.
OpenLine ==
  <<{<<6, c, r, c>> : c \in Coord, r \in {5, 4}}
      \cup {<<7, 1, 5, 0>>, <<7, 1, 5, 2>>, <<7, 6, 5, 5>>, <<7, 6, 5, 7>>}>>

\* A black pawn arrives on e2, next to the squares the white king crosses.
PawnLine ==
  <<{<<7, 6, 5, 5>>}, {<<1, 3, 3, 3>>}, {<<6, 6, 5, 6>>}, {<<3, 3, 4, 3>>},
    {<<7, 5, 6, 6>>}, {<<4, 3, 5, 3>>}, {<<6, 0, 5, 0>>}, {<<5, 3, 6, 4>>},
    {<<7, 4, 7, 6>>, <<7, 4, 6, 4>>}>>

\* The shortest game: Black mates on the fourth ply.
FoolLine ==
  <<{<<6, 5, 5, 5>>}, {<<1, 4, 3, 4>>}, {<<6, 6, 4, 6>>}, {<<0, 3, 4, 7>>}>>

Lines ==
  <<LoydLine, MateLine, CastleLine, PromoLine, RaceLine, HangLine, QueenLine,
    OpenLine, PawnLine, FoolLine>>

EngineLines == {2, 4, 5, 6, 7, 10}

\* Every move getLegalMoves offers color on board, as a 4-tuple.
legalTuples(board, color, castlingRights) ==
  UNION {{<<s[1], s[2], move.row, move.col>> :
            move \in getLegalMoves(board, s[1], s[2], color, castlingRights)} :
         s \in {t \in Coord \X Coord : getPieceColor(board[t[1]][t[2]]) = color}}

\* The moves the mover may choose from at ply n (n plies already played).
choices(l, n) == IF n < Len(Lines[l]) THEN Lines[l][n + 1] ELSE {}

(***************************************************************************)
(* State.  The React state of ChessGame (App.jsx 49-78) as of the last     *)
(* render, the heap of board objects, the pending timeout of the engine    *)
(* turn, the module state of ai.js (lines 5-8) with the getBestMove calls  *)
(* in flight, and the players' line.  navs counts the arrow keys pressed,   *)
(* applied records the last move executeMove applied with the values it    *)
(* read, returned the value the last finished getBestMove call resolved    *)
(* to (<<>>: none yet, <<"null">>, or <<"move", m>>).  The r-variables are *)
(* the state of the rules harness: a game played on the bare rules engine. *)
(***************************************************************************)
VARIABLES gameStarted, aiMode, heap, history, moveList, currentStep,
          castlingRights, selected, legalMoves, currentPlayer, captured,
          gameStatus, aiThinking, pendingPromotion,
          timer, calls, sfWorker, sfReady, pendingResolve, readyPromise,
          workers, job,
          line, navs, applied, returned,
          rPly, rBoard, rRights, rTurn, rArg, rLast, rEval

reactVars ==
  <<gameStarted, aiMode, heap, history, moveList, currentStep,
    castlingRights, selected, legalMoves, currentPlayer, captured,
    gameStatus, aiThinking, pendingPromotion>>
engineVars ==
  <<timer, calls, sfWorker, sfReady, pendingResolve, readyPromise,
    workers, job>>
ghostVars == <<navs, applied, returned>>
sessionVars == <<reactVars, engineVars, ghostVars>>
rulesVars == <<rPly, rBoard, rRights, rTurn, rArg, rLast, rEval>>
vars == <<sessionVars, line, rulesVars>>

\* The session after the first render and its effects (nothing to do yet).
SessionInit ==
  /\ gameStarted = FALSE
  /\ aiMode = FALSE
  /\ heap = <<createInitialBoard>>
  /\ history = <<1>>
  /\ moveList = <<>>
  /\ currentStep = 0
  /\ castlingRights = DEFAULT_CASTLING_RIGHTS
  /\ selected = None
  /\ legalMoves = {}
  /\ currentPlayer = "white"
  /\ captured = [white |-> <<>>, black |-> <<>>]
  /\ gameStatus = "playing"
  /\ aiThinking = FALSE
  /\ pendingPromotion = None
  /\ timer = None
  /\ calls = <<>>
  /\ sfWorker = 0
  /\ sfReady = FALSE
  /\ pendingResolve = 0
  /\ readyPromise = 0
  /\ workers = <<>>
  /\ job = None
  /\ navs = 0
  /\ applied = None
  /\ returned = <<>>

(***************************************************************************)
(* The rules harness.  It plays a line on the rules engine alone: each     *)
(* step asks getLegalMoves whether the move is offered under the rights    *)
(* the session would hold (rRights), applies it with makeMove, and then    *)
(* evaluates the new board with the functions under study, for both        *)
(* colours, giving them rArg where they take castling rights.              *)
(***************************************************************************)
kingSquare(board, color) == findKing(board, color)[1]

evaluate(board, arg) ==
  [mate |-> [c \in Colors |-> isCheckmate(board, c)],
   stale |-> [c \in Colors |-> isStalemate(board, c)],
   legal |-> [c \in Colors |-> legalTuples(board, c, arg)],
   king |-> [c \in Colors |->
               getKingMoves(board, kingSquare(board, c).row,
                            kingSquare(board, c).col, c, arg, FALSE)],
   kingAttack |-> [c \in Colors |->
               getKingMoves(board, kingSquare(board, c).row,
                            kingSquare(board, c).col, c, arg, TRUE)]]

\* The rights handed to the functions under study: each colour's three
\* flags take all eight values.
RightsArgs ==
  {[wKMoved |-> k, wLRookMoved |-> l, wRRookMoved |-> r,
    bKMoved |-> k, bLRookMoved |-> l, bRRookMoved |-> r] :
     k \in BOOLEAN, l \in BOOLEAN, r \in BOOLEAN}

RulesInit ==
  /\ SessionInit
  /\ line \in 1..Len(Lines)
  /\ rArg \in RightsArgs
  /\ rPly = 0
  /\ rBoard = createInitialBoard
  /\ rRights = DEFAULT_CASTLING_RIGHTS
  /\ rTurn = "white"
  /\ rLast = None
  /\ rEval = evaluate(createInitialBoard, rArg)

promotionArgs(piece, toRow) ==
  IF reachesLastRank(piece, toRow)
  THEN {null} \cup {finalPiece(piece, p) : p \in PromotionButtons}
  ELSE {null}

RulesMove ==
  \E m \in choices(line, rPly) :
    LET piece == rBoard[m[1]][m[2]]
    IN /\ Sq(m[3], m[4]) \in getLegalMoves(rBoard, m[1], m[2], rTurn, rRights)
       /\ \E promotionPiece \in promotionArgs(piece, m[3]) :
            LET res == makeMove(<<rBoard>>, 1, m[1], m[2], m[3], m[4],
                                promotionPiece)
                result == res.heap[res.board]
            IN /\ rBoard' = result
               /\ rLast' = Some([board |-> rBoard, after |-> res.heap[1],
                                 fromRow |-> m[1], fromCol |-> m[2],
                                 toRow |-> m[3], toCol |-> m[4],
                                 promotionPiece |-> promotionPiece,
                                 piece |-> piece, color |-> rTurn,
                                 capturedPiece |-> res.capturedPiece])
               /\ rRights' = newRights(rRights, piece, m[1], m[2])
               /\ rTurn' = opponent(rTurn)
               /\ rPly' = rPly + 1
               /\ rEval' = evaluate(result, rArg)
       /\ UNCHANGED <<sessionVars, line, rArg>>

RulesNext == RulesMove

RulesSpec == RulesInit /\ [][RulesNext]_vars

(***************************************************************************)
(* Properties of the rules engine, checked under RulesSpec.                *)
(***************************************************************************)

\* C1: every move getLegalMoves returns (for either colour, on every board
\* reached by play, under every rights argument, castling included), once
\* applied with simulateMove or with makeMove, gives a board on which the
\* mover's own king is not in check.
C1_LegalMovesKeepKingSafe ==
  \A c \in Colors : \A m \in rEval.legal[c] :
     /\ ~isKingInCheck(simulated(rBoard, m[1], m[2], m[3], m[4]), c)
     /\ \A promotionPiece \in promotionArgs(rBoard[m[1]][m[2]], m[3]) :
          ~isKingInCheck(moved(rBoard, m[1], m[2], m[3], m[4], promotionPiece), c)

\* The filter has removed a geometrically possible move of a colour that
\* still has legal moves, a two-file king move among them.
C1_Witness ==
  \E c \in Colors :
     /\ \E m \in rEval.legal[c] :
          /\ rBoard[m[1]][m[2]] \in {"K", "k"}
          /\ (m[4] - m[2] = 2 \/ m[2] - m[4] = 2)
     /\ \E row \in Coord, col \in Coord :
          /\ getPieceColor(rBoard[row][col]) = c
          /\ \E move \in pseudoLegalMoves(rBoard, row, col, c, rArg) :
               move \notin getLegalMoves(rBoard, row, col, c, rArg)

\* C2: isStalemate(board, colour) is true exactly when colour's king is not
\* in check and no piece of colour has a legal move under the rights the
\* game actually holds; so it is true of a lone black king on a8 that is
\* not in check while a7, b7 and b8 are covered.
C2_StalemateExact ==
  \A c \in Colors :
     rEval.stale[c] <=>
       (~isKingInCheck(rBoard, c) /\ ~anyLegalMove(rBoard, c, rRights))

\* C4: isCheckmate(board, colour) is true exactly when colour's king is in
\* check and no piece of colour has a legal move, whatever castling rights
\* the legal moves are computed under.
C4_CheckmateExact ==
  \A c \in Colors :
     rEval.mate[c] <=> (isKingInCheck(rBoard, c) /\ rEval.legal[c] = {})

\* White's king on e1 is mated by a black queen on the e-file.
C4_Witness ==
  /\ rEval.mate["white"]
  /\ rBoard[7][4] = "K"
  /\ \E row \in Coord : rBoard[row][4] = "q"

\* C5: isCheckmate and isStalemate are never both true of a board and colour.
C5_MateStalemateExclusive ==
  \A c \in Colors : ~(rEval.mate[c] /\ rEval.stale[c])

\* isStalemate answers true for the side to move.
C5_Witness == rEval.stale[rTurn]


C7_CastlingMovesKingAndRook ==
  rLast # None =>
    LET l == rLast[1]
        rook == IF l.piece = "K" THEN "R" ELSE "r"
        corner == IF l.toCol = 6 THEN 7 ELSE 0
        beside == IF l.toCol = 6 THEN 5 ELSE 3
    IN (l.piece \in {"K", "k"}
          /\ (l.toCol - l.fromCol = 2 \/ l.fromCol - l.toCol = 2)) =>
         /\ rBoard[l.toRow][l.toCol] = l.piece
         /\ rBoard[l.toRow][beside] = rook
         /\ rBoard[l.fromRow][l.fromCol] = null
         /\ rBoard[l.toRow][corner] = null
         /\ \A row \in Coord, col \in Coord :
              (row # l.toRow \/ col \notin {l.fromCol, l.toCol, corner, beside})
                => rBoard[row][col] = l.board[row][col]
         /\ l.capturedPiece = null

\* C8: when makeMove takes a pawn to the last rank the destination holds a
\* queen of the mover's colour if no choice is given and otherwise the
\* chosen piece, of the mover's colour; no pawn is left on row 0 or row 7.
C8_PromotionReplacesPawn ==
  /\ \A col \in Coord :
       rBoard[0][col] \notin {"P", "p"} /\ rBoard[7][col] \notin {"P", "p"}
  /\ rLast # None =>
       LET l == rLast[1]
       IN reachesLastRank(l.piece, l.toRow) =>
            /\ getPieceColor(rBoard[l.toRow][l.toCol]) = l.color
            /\ IF l.promotionPiece = null
               THEN getPieceType(rBoard[l.toRow][l.toCol]) = "q"
               ELSE /\ rBoard[l.toRow][l.toCol] = l.promotionPiece
                    /\ getPieceType(l.promotionPiece) \in {"q", "r", "b", "n"}

\* A black pawn has been promoted without a choice and is now a black queen.
C8_Witness ==
  /\ rLast # None
  /\ rLast[1].piece = "p"
  /\ rLast[1].toRow = 7
  /\ rLast[1].promotionPiece = null
  /\ rBoard[7][rLast[1].toCol] = "q"


(***************************************************************************)
(* The session (App.jsx).  A handler reads the values of the render it was *)
(* created in and queues state updates; React then renders and runs the    *)
(* effects whose dependencies changed, and renders again if an effect set  *)
(* state.  s is the record of the state with the updates queued so far.    *)
(***************************************************************************)
Files == <<"a", "b", "c", "d", "e", "f", "g", "h">>
Digits == <<"1", "2", "3", "4", "5", "6", "7", "8">>

\* The strings are built by concatenation: a notation is its list of parts.
getNotation(piece, r1, c1, r2, c2, promotionPiece) ==
  IF toLowerCase(piece) = "k" /\ (c2 - c1 = 2 \/ c1 - c2 = 2)
  THEN IF c2 > c1 THEN <<"O-O">> ELSE <<"O-O-O">>
  ELSE IF toLowerCase(piece) = "p" /\ (r2 = 0 \/ r2 = 7)
          /\ promotionPiece # null
       THEN <<Files[c2 + 1], Digits[8 - r2], "=", toUpperCase(promotionPiece)>>
       ELSE <<IF toUpperCase(piece) = "P" THEN "" ELSE toUpperCase(piece),
              Files[c1 + 1], Digits[8 - r1], " -> ",
              Files[c2 + 1], Digits[8 - r2]>>

cur ==
  [gameStarted |-> gameStarted, aiMode |-> aiMode, heap |-> heap,
   history |-> history, moveList |-> moveList, currentStep |-> currentStep,
   castlingRights |-> castlingRights, selected |-> selected,
   legalMoves |-> legalMoves, currentPlayer |-> currentPlayer,
   captured |-> captured, gameStatus |-> gameStatus,
   aiThinking |-> aiThinking, pendingPromotion |-> pendingPromotion,
   timer |-> timer, navs |-> navs, applied |-> applied,
   returned |-> returned]

\* What the functions created in a render read when they run later.
closure(s) ==
  [history |-> s.history, castlingRights |-> s.castlingRights,
   moveList |-> s.moveList, currentPlayer |-> s.currentPlayer,
   gameStatus |-> s.gameStatus]

isAtLatestMove(s) == s.currentStep = Len(s.history) - 1

executeMove(s, cl, fromR, fromC, toR, toC, promotionPiece) ==
  IF cl.gameStatus # "playing" THEN s
  ELSE
    LET latestBoard == cl.history[Len(cl.history)]
        piece == s.heap[latestBoard][fromR][fromC]
    IN IF reachesLastRank(piece, toR) /\ promotionPiece = null
       THEN [s EXCEPT !.pendingPromotion =
               Some([fromR |-> fromR, fromC |-> fromC, toR |-> toR,
                     toC |-> toC, piece |-> piece])]
       ELSE
         LET res == makeMove(s.heap, latestBoard, fromR, fromC, toR, toC,
                             promotionPiece)
             moveStr == getNotation(piece, fromR, fromC, toR, toC,
                                    promotionPiece)
         IN [s EXCEPT
               !.castlingRights = newRights(cl.castlingRights, piece, fromR, fromC),
               !.heap = res.heap,
               !.captured =
                  IF res.capturedPiece # null
                  THEN [@ EXCEPT ![cl.currentPlayer] = Append(@, res.capturedPiece)]
                  ELSE @,
               !.moveList = Append(cl.moveList, moveStr),
               !.history = Append(cl.history, res.board),
               !.currentStep = Len(cl.history),
               !.currentPlayer = opponent(cl.currentPlayer),
               !.applied = Some([piece |-> piece, fromR |-> fromR,
                                 fromC |-> fromC, toR |-> toR, toC |-> toC,
                                 promotionPiece |-> promotionPiece,
                                 base |-> latestBoard,
                                 rights |-> cl.castlingRights,
                                 player |-> cl.currentPlayer,
                                 board |-> res.board])]

\* Lines 85-92: the status the effect leaves after evaluating the latest board.
evaluateStatus(s) ==
  LET latestBoard == s.heap[s.history[Len(s.history)]]
  IN IF isCheckmate(latestBoard, s.currentPlayer) THEN "checkmate"
     ELSE IF isStalemate(latestBoard, s.currentPlayer) THEN "stalemate"
     ELSE s.gameStatus

\* Lines 317-323: the engine-turn effect goes on to start its timer.
engineTurn(s) ==
  /\ s.gameStarted
  /\ s.aiMode
  /\ s.currentPlayer = "black"
  /\ s.gameStatus = "playing"
  /\ isAtLatestMove(s)

engineDeps(s) ==
  <<s.currentPlayer, s.aiMode, isAtLatestMove(s), s.gameStatus, s.gameStarted>>

\* The render of s after the render of prev, with its effects: the status
\* effect (deps history, currentPlayer), the engine-turn effect (cleanup of
\* its last run, then its body), and the second render a status change
\* causes, in which the engine-turn effect only cleans up.
commit(prev, s) ==
  LET status == IF s.history # prev.history
                   \/ s.currentPlayer # prev.currentPlayer
                THEN evaluateStatus(s) ELSE s.gameStatus
      s1 == IF engineDeps(s) = engineDeps(prev) THEN s
            ELSE IF engineTurn(s)
                 THEN [s EXCEPT !.aiThinking = TRUE, !.timer = Some(closure(s))]
                 ELSE [s EXCEPT !.timer = None]
  IN IF status = s.gameStatus THEN s1
     ELSE [s1 EXCEPT !.gameStatus = status, !.timer = None]

Apply(s) ==
  /\ gameStarted' = s.gameStarted
  /\ aiMode' = s.aiMode
  /\ heap' = s.heap
  /\ history' = s.history
  /\ moveList' = s.moveList
  /\ currentStep' = s.currentStep
  /\ castlingRights' = s.castlingRights
  /\ selected' = s.selected
  /\ legalMoves' = s.legalMoves
  /\ currentPlayer' = s.currentPlayer
  /\ captured' = s.captured
  /\ gameStatus' = s.gameStatus
  /\ aiThinking' = s.aiThinking
  /\ pendingPromotion' = s.pendingPromotion
  /\ timer' = s.timer
  /\ navs' = s.navs
  /\ applied' = s.applied
  /\ returned' = s.returned
  /\ UNCHANGED <<line, rulesVars>>

Render(s) ==
  \E prev \in {cur} : \E queued \in {s} :
    \E rendered \in {commit(prev, queued)} : Apply(rendered)

engineIdle == UNCHANGED <<calls, sfWorker, sfReady, pendingResolve,
                          readyPromise, workers, job>>


MaxNav == 2
MaxNavPly == 3
MaxBootPly == 4
MaxInFlight == 2

\* The heap after getLegalMoves has tried each move with simulateMove; the
\* trial boards are garbage once it returns.
RECURSIVE tryMoves(_, _, _, _, _)
tryMoves(h, board, row, col, moves) ==
  IF moves = {} THEN h
  ELSE LET move == CHOOSE m \in moves : TRUE
           tried == simulateMove(h, board, row, col, move.row, move.col).heap
       IN IF Len(tried) = 0 THEN tried
          ELSE tryMoves(tried, board, row, col, moves \ {move})

afterQuery(h, board, row, col, color, rights) ==
  SubSeq(tryMoves(h, board, row, col,
                  pseudoLegalMoves(h[board], row, col, color, rights)),
         1, Len(h))

\* The moves the line lets the mover make in the session's latest position.
lineChoices == choices(line, Len(history) - 1)

\* onChange of the "Play against AI?" checkbox of the setup overlay.
ToggleAiMode ==
  /\ ~gameStarted
  /\ line \in EngineLines
  /\ Render([cur EXCEPT !.aiMode = ~aiMode])
  /\ engineIdle

handleStartGame ==
  /\ ~gameStarted
  /\ Render([cur EXCEPT !.gameStarted = TRUE])
  /\ engineIdle

\* A click on square (r, c); the setup overlay and the promotion dialog
\* cover the board.
handleClick(r, c) ==
  /\ gameStarted
  /\ pendingPromotion = None
  /\ \/ \E m \in lineChoices : m[1] = r /\ m[2] = c
     \/ /\ selected # None
        /\ <<selected[1].row, selected[1].col, r, c>> \in lineChoices
  /\ LET ref == history[currentStep + 1]
         board == heap[ref]
         piece == board[r][c]
     IN IF \/ ~isAtLatestMove(cur)
           \/ aiThinking
           \/ (aiMode /\ currentPlayer = "black")
           \/ gameStatus # "playing"
        THEN Render(cur)
        ELSE IF selected # None /\ Sq(r, c) \in legalMoves
        THEN Render([executeMove(cur, closure(cur), selected[1].row,
                                 selected[1].col, r, c, null)
                       EXCEPT !.selected = None, !.legalMoves = {}])
        ELSE IF piece # null /\ getPieceColor(piece) = currentPlayer
        THEN Render([cur EXCEPT
                       !.selected = Some(Sq(r, c)),
                       !.legalMoves = getLegalMoves(board, r, c, currentPlayer,
                                                    castlingRights),
                       !.heap = afterQuery(heap, ref, r, c, currentPlayer,
                                           castlingRights)])
        ELSE Render([cur EXCEPT !.selected = None, !.legalMoves = {}])
  /\ engineIdle

\* A button of the promotion dialog.
PromotionChoice(p) ==
  /\ gameStarted
  /\ pendingPromotion # None
  /\ LET pp == pendingPromotion[1]
     IN Render(executeMove([cur EXCEPT !.pendingPromotion = None], closure(cur),
                           pp.fromR, pp.fromC, pp.toR, pp.toC,
                           finalPiece(pp.piece, p)))
  /\ engineIdle

Max(a, b) == IF a > b THEN a ELSE b
Min(a, b) == IF a < b THEN a ELSE b

\* The window's keydown listener; navs counts the arrow keys pressed, which
\* the players do during the first MaxNavPly plies only.
handleKeyDown(key) ==
  /\ navs < MaxNav
  /\ Len(history) - 1 <= MaxNavPly
  /\ IF key = "ArrowLeft"
     THEN Render([cur EXCEPT !.currentStep = Max(0, currentStep - 1),
                             !.selected = None, !.legalMoves = {},
                             !.navs = navs + 1])
     ELSE Render([cur EXCEPT
                    !.currentStep = Min(Len(history) - 1, currentStep + 1),
                    !.navs = navs + 1])
  /\ engineIdle


(***************************************************************************)
(* The engine turn (App.jsx 316-341, ai.js 5-139).  A worker is            *)
(* "fetching" while initStockfish awaits the script, "booting" once it is  *)
(* created and has been sent uci/isready, "ready" once it has said         *)
(* readyok; worker i resolves the i-th readyPromise.  A call is a          *)
(* getBestMove invocation with the closure of the timer callback that made *)
(* it: it waits for a readyPromise ("init") or for its bestmove ("search").*)
(* pendingResolve is 0 for null, else the position in calls of the call    *)
(* whose resolver it holds.  A call remembers (overlap) whether an earlier *)
(* call was still unanswered when it was made.  The state updates an       *)
(* asynchronous callback queues are rendered before the next event is      *)
(* handled.                                                                *)
(***************************************************************************)
indexOf(list, x) ==
  IF \E i \in 1..Len(list) : list[i] = x
  THEN (CHOOSE i \in 1..Len(list) : list[i] = x) - 1
  ELSE -1

parseInt(d) == indexOf(Digits, d) + 1

uciToMove(uci) ==
  [from |-> [row |-> 8 - parseInt(uci[2]), col |-> indexOf(Files, uci[1])],
   to |-> [row |-> 8 - parseInt(uci[4]), col |-> indexOf(Files, uci[3])]]

\* The engine's way of writing the move m of the piece on its start square.
uciOf(board, m) ==
  <<Files[m[2] + 1], Digits[8 - m[1]], Files[m[4] + 1], Digits[8 - m[3]]>>
    \o (IF reachesLastRank(board[m[1]][m[2]], m[3]) THEN <<"q">> ELSE <<>>)

remove(list, k) == SubSeq(list, 1, k - 1) \o SubSeq(list, k + 1, Len(list))

\* getBestMove after "await initStockfish()", for the call at position k.
\* e holds calls, pendingResolve, job and whether some call has returned null.
getBestMove(e, k) ==
  IF e.pendingResolve # 0
  THEN [e EXCEPT !.calls = remove(e.calls, k),
                 !.pendingResolve = IF @ > k THEN @ - 1 ELSE @,
                 !.skipped = TRUE]
  ELSE LET cl == e.calls[k].closure
       IN [e EXCEPT !.calls[k].state = "search",
                    !.pendingResolve = k,
                    !.job = Some([worker |-> sfWorker',
                                  board |-> heap[cl.history[Len(cl.history)]],
                                  color |-> "black",
                                  rights |-> cl.castlingRights])]

\* The calls waiting for readyPromise i go on, in the order they were made.
RECURSIVE resumeAll(_, _, _)
resumeAll(e, i, k) ==
  IF k > Len(e.calls) THEN e
  ELSE IF e.calls[k].state = "init" /\ e.calls[k].promise = i
       THEN LET next == getBestMove(e, k)
            IN resumeAll(next, i, IF Len(next.calls) < Len(e.calls) THEN k ELSE k + 1)
       ELSE resumeAll(e, i, k + 1)

engineNow ==
  [calls |-> calls, pendingResolve |-> pendingResolve, job |-> job,
   skipped |-> FALSE]

\* A call that returned null: "if (move)" fails, then setAiThinking(false).
Settle(e, s) ==
  /\ calls' = e.calls
  /\ pendingResolve' = e.pendingResolve
  /\ job' = e.job
  /\ Render(IF e.skipped
            THEN [s EXCEPT !.aiThinking = FALSE, !.returned = <<"null">>]
            ELSE s)

\* The timeout of the engine-turn effect: the callback runs up to its await.
TimerFire ==
  /\ timer # None
  /\ Len(calls) < MaxInFlight
  /\ UNCHANGED <<sfWorker, sfReady>>
  /\ LET call(st, p) == [closure |-> timer[1], state |-> st, promise |-> p,
                          overlap |-> calls # <<>>]
         fired == [cur EXCEPT !.timer = None]
     IN IF sfWorker = 0
        THEN /\ workers' = Append(workers, "fetching")
             /\ readyPromise' = Len(workers) + 1
             /\ Settle([engineNow EXCEPT
                          !.calls = Append(calls, call("init", Len(workers) + 1))],
                       fired)
        ELSE /\ UNCHANGED <<workers, readyPromise>>
             /\ IF workers[readyPromise] = "ready"
                THEN Settle(getBestMove([engineNow EXCEPT
                                         !.calls = Append(calls, call("init", readyPromise))],
                                      Len(calls) + 1),
                            fired)
                ELSE Settle([engineNow EXCEPT
                               !.calls = Append(calls, call("init", readyPromise))],
                            fired)

\* fetch and response.text() of initialisation i are done: lines 24-53.  A
\* script that has not arrived after MaxBootPly plies never arrives.
FetchDone(i) ==
  /\ workers[i] = "fetching"
  /\ Len(history) - 1 <= MaxBootPly
  /\ workers' = [workers EXCEPT ![i] = "booting"]
  /\ sfWorker' = i
  /\ UNCHANGED <<sfReady, readyPromise, calls, pendingResolve, job>>
  /\ Render(cur)

\* Worker i says readyok: lines 33-37 (within MaxBootPly plies, or never).
ReadyOk(i) ==
  /\ workers[i] = "booting"
  /\ Len(history) - 1 <= MaxBootPly
  /\ workers' = [workers EXCEPT ![i] = "ready"]
  /\ sfReady' = TRUE
  /\ UNCHANGED <<sfWorker, readyPromise>>
  /\ Settle(resumeAll(engineNow, i, 1), cur)

\* The worker that was sent the position says bestmove: lines 39-49, then
\* the rest of the timer callback, lines 333-337.
BestMove ==
  /\ job # None
  /\ pendingResolve # 0
  /\ workers[job[1].worker] = "ready"
  /\ LET j == job[1]
         cl == calls[pendingResolve].closure
         legal == legalTuples(j.board, j.color, j.rights)
         answers ==
           IF legal = {} THEN {<<"(none)">>}
           ELSE {uciOf(j.board, m) :
                   m \in legal \cap choices(line, Len(cl.history) - 1)}
     IN \E moveStr \in answers :
          LET move == IF moveStr = <<"(none)">> THEN None
                      ELSE Some(uciToMove(moveStr))
              s == IF move # None
                   THEN executeMove(cur, cl, move[1].from.row, move[1].from.col,
                                    move[1].to.row, move[1].to.col, null)
                   ELSE cur
          IN Render([s EXCEPT !.aiThinking = FALSE,
                              !.returned = IF move = None THEN <<"null">>
                                           ELSE <<"move", move[1]>>])
  /\ calls' = remove(calls, pendingResolve)
  /\ pendingResolve' = 0
  /\ job' = None
  /\ UNCHANGED <<sfWorker, sfReady, readyPromise, workers>>

Init ==
  /\ SessionInit
  /\ line \in 1..Len(Lines)
  /\ rArg = DEFAULT_CASTLING_RIGHTS
  /\ rPly = 0
  /\ rBoard = createInitialBoard
  /\ rRights = DEFAULT_CASTLING_RIGHTS
  /\ rTurn = "white"
  /\ rLast = None
  /\ rEval = evaluate(createInitialBoard, DEFAULT_CASTLING_RIGHTS)

Next ==
  \/ ToggleAiMode
  \/ handleStartGame
  \/ \E r \in Coord, c \in Coord : handleClick(r, c)
  \/ \E p \in PromotionButtons : PromotionChoice(p)
  \/ \E key \in {"ArrowLeft", "ArrowRight"} : handleKeyDown(key)
  \/ TimerFire
  \/ \E i \in 1..Len(workers) : FetchDone(i)
  \/ \E i \in 1..Len(workers) : ReadyOk(i)
  \/ BestMove

Spec == Init /\ [][Next]_vars


(***************************************************************************)
(* Properties of the session, checked under Spec.                          *)
(***************************************************************************)

\* C3 (as stated): once the status evaluation has run after a move,
\* gameStatus is "playing" only if the side to move has a legal move under
\* the session's castlingRights; a position without a legal move is always
\* classified checkmate or stalemate.
C3_PlayingOnlyWithLegalMove ==
  gameStatus = "playing" =>
    anyLegalMove(heap[history[Len(history)]], currentPlayer, castlingRights)

\* C9: makeMove and simulateMove never change the board they are given: a
\* board object, once it exists (every board of history is one), keeps
\* every square through all later moves, legal-move queries and navigation.
C9_BoardsNeverChange ==
  [][\A ref \in DOMAIN heap :
       ref \in DOMAIN heap' /\ heap'[ref] = heap[ref]]_vars

\* Moves have been applied, the history has been walked with the arrow keys
\* and a legal-move query has just been answered.
C9_Witness ==
  /\ Len(history) > 2
  /\ navs > 0
  /\ selected # None
  /\ legalMoves # {}

\* C10 (as stated): a has-moved flag of castlingRights, once true, is never
\* false again, and it becomes true only in a step that applies a move of
\* the corresponding king, or of a rook from the corresponding corner, from
\* its home square.
C10_FlagsSetOnceForGood ==
  [][\A flag \in DOMAIN castlingRights :
       /\ castlingRights[flag] => castlingRights'[flag]
       /\ (~castlingRights[flag] /\ castlingRights'[flag]) =>
            /\ applied' # applied
            /\ LET a == applied'[1]
               IN CASE flag = "wKMoved" ->
                         a.piece = "K" /\ a.fromR = 7 /\ a.fromC = 4
                    [] flag = "bKMoved" ->
                         a.piece = "k" /\ a.fromR = 0 /\ a.fromC = 4
                    [] flag = "wLRookMoved" ->
                         a.piece = "R" /\ a.fromR = 7 /\ a.fromC = 0
                    [] flag = "wRRookMoved" ->
                         a.piece = "R" /\ a.fromR = 7 /\ a.fromC = 7
                    [] flag = "bLRookMoved" ->
                         a.piece = "r" /\ a.fromR = 0 /\ a.fromC = 0
                    [] flag = "bRRookMoved" ->
                         a.piece = "r" /\ a.fromR = 0 /\ a.fromC = 7]_vars


\* C11 (as stated): at most one search request is outstanding, and a
\* getBestMove call made while an earlier call was still unanswered (the
\* engine initialising or searching) is rejected: it never sends a position
\* to the engine and never takes the place of the pending resolver, so the
\* bestmove message resolves the one call that is searching.
C11_OneSearchOutstanding ==
  /\ Cardinality({k \in DOMAIN calls : calls[k].state = "search"}) <= 1
  /\ \A k \in DOMAIN calls : calls[k].state = "search" =>
       /\ pendingResolve = k
       /\ job # None
       /\ ~calls[k].overlap


\* C12 (as stated): when the session applies the move of a bestmove
\* response, the latest board, the side to move and the castling rights are
\* those the request was made with, and every board the history held before
\* is still in it.
C12_AppliedToRequestedPosition ==
  [][(job # None /\ job' = None /\ history' # history) =>
       LET a == applied'[1]
       IN /\ a.base = history[Len(history)]
          /\ a.player = currentPlayer
          /\ a.rights = castlingRights
          /\ Len(history') = Len(history) + 1
          /\ SubSeq(history', 1, Len(history)) = history]_vars


(***************************************************************************)
(* Further properties of the rules engine, checked under RulesSpec.        *)
(***************************************************************************)

\* C13: on the initial board getLegalMoves returns 20 moves for White over
\* all squares, two for each pawn and two for each knight, and after any
\* single legal move of White that does not give check it returns 20 moves
\* for Black.
C13_TwentyOpeningMoves ==
  /\ rPly = 0 =>
       LET movesFrom(row, col) ==
             {m \in rEval.legal["white"] : m[1] = row /\ m[2] = col}
       IN /\ Cardinality(rEval.legal["white"]) = 20
          /\ \A c \in Coord : Cardinality(movesFrom(6, c)) = 2
          /\ \A c \in {1, 6} : Cardinality(movesFrom(7, c)) = 2
  /\ (rPly = 1 /\ ~isKingInCheck(rBoard, "black")) =>
       Cardinality(rEval.legal["black"]) = 20

\* White has made one of the twenty first moves (a knight move among them)
\* and Black, not in check, is to move.
C13_Witness ==
  /\ rPly = 1
  /\ rLast[1].board = createInitialBoard
  /\ rLast[1].piece = "N"
  /\ ~isKingInCheck(rBoard, "black")
  /\ Cardinality(rEval.legal["black"]) = 20


(***************************************************************************)
(* Further properties of the session, checked under Spec.                  *)
(***************************************************************************)

\* C14 (as stated): when the move the engine returns takes a black pawn to
\* the last rank, the step that receives it applies the move with a black
\* queen on the destination and passes the turn to White, and no promotion
\* choice becomes pending.
C14_EnginePromotesToQueen ==
  [][(/\ job # None
      /\ job' = None
      /\ returned'[1] = "move"
      /\ job[1].board[returned'[2].from.row][returned'[2].from.col] = "p"
      /\ returned'[2].to.row = 7) =>
       /\ pendingPromotion' = None
       /\ history' # history
       /\ heap'[history'[Len(history')]][7][returned'[2].to.col] = "q"
       /\ currentPlayer' = "white"]_vars


C16_BestMoveNeverNull ==
  returned # <<>> =>
    /\ returned[1] = "move"
    /\ DOMAIN returned[2] = {"from", "to"}
    /\ \A end \in {"from", "to"} :
         returned[2][end].row \in Coord /\ returned[2][end].col \in Coord


\* C17 (as stated): when the engine answers "(none)" the response decodes to
\* no move, the step applies nothing (history, castlingRights, side to move
\* and captured lists stay as they are), and the position searched is the
\* session's current one, classified as checkmate or stalemate of the
\* engine's side.
C17_NoneOnlyWhenTerminal ==
  [][(/\ job # None
      /\ job' = None
      /\ legalTuples(job[1].board, job[1].color, job[1].rights) = {}) =>
       /\ returned' = <<"null">>
       /\ UNCHANGED <<history, castlingRights, currentPlayer, captured>>
       /\ job[1].board = heap[history[Len(history)]]
       /\ \/ isCheckmate(job[1].board, "black")
          \/ isStalemate(job[1].board, "black")]_vars


\* C18 (as stated): history changes only by appending the board makeMove
\* returns for the latest board and a move getLegalMoves offers the side to
\* move under the current castlingRights; the side to move changes with it;
\* while a promotion choice is pending the only move applied is that
\* promotion (so an engine move, like any other, is applied only when legal
\* in the current position).
C18_HistoryGrowsByLegalMoves ==
  [][history' # history =>
       LET a == applied'[1]
           latest == history[Len(history)]
       IN /\ history' = Append(history, a.board)
          /\ a.base = latest
          /\ Sq(a.toR, a.toC) \in
               getLegalMoves(heap[latest], a.fromR, a.fromC, currentPlayer,
                             castlingRights)
          /\ heap'[a.board] = moved(heap[latest], a.fromR, a.fromC, a.toR,
                                    a.toC, a.promotionPiece)
          /\ currentPlayer' = opponent(currentPlayer)
          /\ pendingPromotion # None =>
               /\ pendingPromotion' = None
               /\ a.promotionPiece # null
               /\ <<a.fromR, a.fromC, a.toR, a.toC>> =
                    <<pendingPromotion[1].fromR, pendingPromotion[1].fromC,
                      pendingPromotion[1].toR, pendingPromotion[1].toC>>]_vars


(***************************************************************************)
(* Castling and attacks, checked under RulesSpec.                          *)
(***************************************************************************)

\* C19 (as stated): in every position of play, when getLegalMoves returns a
\* castling move (the king going two files along its row) under the rights
\* the session holds, a rook of the king's colour stands on the corner of
\* that wing: column 7 for the kingside, column 0 for the queenside.
C19_CastlingNeedsCornerRook ==
  \A color \in Colors :
    LET king == kingSquare(rBoard, color)
        rook == IF color = "white" THEN "R" ELSE "r"
    IN \A move \in getLegalMoves(rBoard, king.row, king.col, color, rRights) :
         /\ (move.row = king.row /\ move.col = king.col + 2) =>
              rBoard[king.row][7] = rook
         /\ (move.row = king.row /\ move.col = king.col - 2) =>
              rBoard[king.row][0] = rook


\* C20 (as stated): isSquareUnderAttack(board, row, col, colour) is true
\* exactly when a piece of colour attacks (row, col) by chess attack
\* geometry, for empty squares and squares the other side holds: a pawn
\* attacks the two squares diagonally ahead of it, a knight and a king
\* their offsets, rook, bishop and queen along their lines as far as the
\* first piece.  Hence castling is not offered when an enemy pawn covers a
\* square the king crosses, and it is offered when the rights, the empty
\* squares and the geometry allow it.
C20_AttackGeometry ==
  LET Abs(n) == IF n < 0 THEN 0 - n ELSE n
      Sign(n) == IF n < 0 THEN -1 ELSE IF n > 0 THEN 1 ELSE 0
      clearBetween(board, r, c, row, col) ==
        \A i \in 1..(Max(Abs(row - r), Abs(col - c)) - 1) :
          board[r + i * Sign(row - r)][c + i * Sign(col - c)] = null
      pieceAttacks(board, r, c, row, col) ==
        LET piece == board[r][c]
            type == toLowerCase(piece)
            dr == row - r
            dc == col - c
            straight == (dr = 0) # (dc = 0)
            diagonal == Abs(dr) = Abs(dc) /\ dr # 0
        IN CASE type = "p" -> /\ dr = (IF isWhitePiece(piece) THEN -1 ELSE 1)
                              /\ Abs(dc) = 1
             [] type = "n" -> {Abs(dr), Abs(dc)} = {1, 2}
             [] type = "k" -> Max(Abs(dr), Abs(dc)) = 1
             [] type = "r" -> straight /\ clearBetween(board, r, c, row, col)
             [] type = "b" -> diagonal /\ clearBetween(board, r, c, row, col)
             [] type = "q" -> /\ straight \/ diagonal
                              /\ clearBetween(board, r, c, row, col)
      attackers(board, row, col, color) ==
        {sq \in Coord \X Coord :
           /\ getPieceColor(board[sq[1]][sq[2]]) = color
           /\ pieceAttacks(board, sq[1], sq[2], row, col)}
  IN /\ \A row \in Coord, col \in Coord, color \in Colors :
          getPieceColor(rBoard[row][col]) # color =>
            (isSquareUnderAttack(rBoard, row, col, color)
               <=> attackers(rBoard, row, col, color) # {})
     /\ \A color \in Colors, side \in {6, 2} :
          LET h == homeRow(color)
              crossed == IF side = 6 THEN {5, 6} ELSE {2, 3}
              empty == IF side = 6 THEN {5, 6} ELSE {1, 2, 3}
              offered ==
                /\ kingSquare(rBoard, color) = Sq(h, 4)
                /\ Sq(h, side) \in
                     getKingMoves(rBoard, h, 4, color, rRights, FALSE)
              allowed ==
                /\ kingSquare(rBoard, color) = Sq(h, 4)
                /\ ~kingMovedFlag(color, rRights)
                /\ IF side = 6 THEN ~rightRookMovedFlag(color, rRights)
                   ELSE ~leftRookMovedFlag(color, rRights)
                /\ \A c \in empty : rBoard[h][c] = null
                /\ \A c \in crossed \cup {4} :
                     attackers(rBoard, h, c, opponent(color)) = {}
          IN /\ offered =>
                  \A c \in crossed :
                    \A sq \in attackers(rBoard, h, c, opponent(color)) :
                      toLowerCase(rBoard[sq[1]][sq[2]]) # "p"
             /\ allowed => offered


\* C21 (as stated): once gameStatus is "checkmate" or "stalemate" it stays
\* so, and no later step (a click, a promotion choice, an engine response
\* however late, an arrow key) changes history, castlingRights or the side
\* to move.
C21_TerminalStatusAbsorbing ==
  [][(gameStatus = "checkmate" \/ gameStatus = "stalemate") =>
       /\ gameStatus' = gameStatus
       /\ history' = history
       /\ castlingRights' = castlingRights
       /\ currentPlayer' = currentPlayer]_vars

=============================================================================
